---- MODULE Spec2Model ----
(***************************************************************************)
(* Model of the video generation service (src/index.js): the POST          *)
(* /generate-video handler and the background render task it starts.       *)
(* One action per step between two awaits of the task.  The external       *)
(* collaborators (Supabase tables and storage, Deepgram, Remotion) are     *)
(* the environment: each call either succeeds, returns an error or         *)
(* throws, chosen nondeterministically within a budget of faults.          *)
(*                                                                         *)
(* Durations are in tenths of a second, wall time in milliseconds,         *)
(* render fractions in percent.                                            *)
(*                                                                         *)
(* Spec follows one request through every step.  SpecJobs follows several  *)
(* requests served at once, reduced to what their tasks share: file and    *)
(* object names, the rows of table videos, the tracking lists.             *)
(***************************************************************************)
EXTENDS Integers, Sequences, FiniteSets, TLC

\* ------------------------------------------------------------- bounds
MaxScenes == 2
MaxFaults == 2
MaxInflight == 2
MaxJobs == 2

\* ---------------------------------------------------- program constants
ThrottleMs == 1000
DefaultFps == 30
RootDurationInFrames == 300
RootFps == 30

NULL == "null"

\* JS truthiness of a string-or-null value: null, undefined and '' are falsy.
Truthy(v) == v \notin {NULL, ""}

Max(a, b) == IF a >= b THEN a ELSE b

\* Math.round of the rational num/den (den > 0, num >= 0): floor(x + 0.5).
Round(num, den) == (2 * num + den) \div (2 * den)

\* Variant: Math.ceil instead of Math.floor.
CeilFrames(tenths, f) == -((-(tenths * f)) \div 10)

\* Math.floor of tenths * fps / 10.
FloorFrames(tenths, f) == (tenths * f) \div 10

RECURSIVE SumDurations(_)
SumDurations(scenes) ==
    IF scenes = <<>> THEN 0
    ELSE scenes[1].duration + SumDurations(Tail(scenes))

\* ------------------------------------------------------ raw manifests
Absent == [kind |-> "absent", text |-> NULL, audioUrl |-> NULL]
NullNarration == [kind |-> "null", text |-> NULL, audioUrl |-> NULL]
Str(s) == [kind |-> "string", text |-> s, audioUrl |-> NULL]
Obj(t, u) == [kind |-> "object", text |-> t, audioUrl |-> u]

\* duration 0 stands for an absent or zero raw duration (both falsy).
\* The three shapes the pipeline tells apart: narration to synthesize,
\* narration with audio already, no narration.
RawScenes ==
    { [duration |-> 50, narration |-> Str("hi")],
      [duration |-> 70, narration |-> Obj("hi", "pre")],
      [duration |-> 1,  narration |-> Absent] }

\* Further single scenes: defaulted duration, object narration without
\* audio, empty text, a negative duration (-2 s).
OtherScenes ==
    { [duration |-> 0, narration |-> Obj("hi", NULL)],
      [duration |-> 0, narration |-> Str("")],
      [duration |-> -20, narration |-> Str("hi")] }

NoMeta == [present |-> FALSE, fps |-> 0, version |-> NULL, theme |-> NULL,
           resolution |-> NULL]
MainMetas ==
    { NoMeta,
      [present |-> TRUE, fps |-> 4, version |-> "2.0", theme |-> "light",
       resolution |-> "1280x720"] }
\* A meta object that holds none of the fields.
RawMetas ==
    MainMetas \cup { [present |-> TRUE, fps |-> 0, version |-> NULL,
                      theme |-> NULL, resolution |-> NULL] }

SeqsUpTo(S, n) == UNION { [1..k -> S] : k \in 0..n }

NoManifest == [present |-> FALSE, meta |-> NoMeta, scenesKind |-> "absent",
               scenes |-> <<>>]

RawManifests ==
    {NoManifest}
    \cup { [present |-> TRUE, meta |-> m, scenesKind |-> "array", scenes |-> s] :
             m \in MainMetas, s \in SeqsUpTo(RawScenes, MaxScenes) }
    \cup { [present |-> TRUE, meta |-> m, scenesKind |-> "array",
            scenes |-> << s >>] : m \in RawMetas, s \in OtherScenes }
    \cup { [present |-> TRUE, meta |-> NoMeta, scenesKind |-> "absent",
            scenes |-> <<>>],
           [present |-> TRUE, meta |-> NoMeta, scenesKind |-> "notarray",
            scenes |-> <<>>],
           [present |-> TRUE, meta |-> NoMeta, scenesKind |-> "array",
            scenes |-> << [duration |-> 50, narration |-> NullNarration] >>] }

ManifestIds == {NULL, "m1"}

\* ------------------------------------------------- transformManifest
DefaultMeta == [present |-> TRUE, fps |-> DefaultFps, version |-> "1.0",
                theme |-> "institutional-dark", resolution |-> "1920x1080"]

NarrationText(n) ==
    IF n.kind = "string" THEN n.text
    ELSE IF n.kind = "object" /\ Truthy(n.text) THEN n.text
    ELSE ""

\* typeof null is 'object' too; only the object case yields a property.
NarrationAudioUrl(n) == IF n.kind = "object" THEN n.audioUrl ELSE NULL

TransformScene(scene) ==
    [duration |-> IF scene.duration = 0 THEN 10 * 10 ELSE scene.duration,
     narration |-> [text |-> NarrationText(scene.narration),
                    audioUrl |-> NarrationAudioUrl(scene.narration)]]

\* Reading .audioUrl of a null narration, or .map of a non-array, throws.
TransformThrows(aiManifest) ==
    \/ aiManifest.scenesKind = "notarray"
    \/ \E k \in DOMAIN aiManifest.scenes :
          aiManifest.scenes[k].narration.kind = "null"

NullResult == [kind |-> "null", meta |-> NoMeta, scenes |-> <<>>]
ThrowResult == [kind |-> "throw", meta |-> NoMeta, scenes |-> <<>>]

transformManifest(aiManifest) ==
    IF ~aiManifest.present THEN NullResult
    ELSE IF TransformThrows(aiManifest) THEN ThrowResult
    ELSE [kind |-> "ok",
          meta |-> IF aiManifest.meta.present THEN aiManifest.meta
                   ELSE DefaultMeta,
          scenes |-> [k \in DOMAIN aiManifest.scenes |->
                         TransformScene(aiManifest.scenes[k])]]

\* ------------------------------------------------------------- state
VARIABLES
    body,                 \* req.body: [manifest, manifest_id]
    pc,                   \* position of the handler / background task
    response,             \* what the HTTP caller received
    videoId,              \* NULL until crypto.randomUUID() ran
    transformedManifest,
    durationInFrames, totalDurationInSeconds,
    i,                    \* loop index of the narration loop (0-based)
    audioFiles, supabaseAudioPaths,
    videoUrl,
    composition,          \* the composition selectComposition returned
    lastUpdateAge,        \* Date.now() - lastUpdate, saturating
    sinceIssue,           \* time since a render update was last issued
    inflight,             \* render-progress updates issued and not yet answered
    job,                  \* the row of table videos with id = videoId
    artifact,             \* video_url of the associated row of table artifacts
    disk,                 \* local files under public/videos and public/audio
    bucket,               \* objects of storage bucket narration-audio
    videosBucket,         \* objects of storage bucket videos
    faults,               \* failures injected so far
    called,               \* an external collaborator has been called
    sent,                 \* scene indices sent to the Speech Synthesizer
    synthRes,             \* per scene: outcome of its synthesis and upload
    cleanupRuns,          \* number of times the finally block was entered
    cleanupFault,         \* a deletion of the finally block failed
    failCause,            \* the step whose error reached the catch block
    uploadAttempted,      \* the video upload was called
    completeWrite,        \* outcome of the completion update
    catchWrite            \* outcome of the catch block's status write

\* Several requests served by the same process: what their background tasks
\* share (the local directories, the bucket, table videos) and what each
\* task owns.
VARIABLES
    tasks,                \* per request: position, videoId, tracking lists
    localFiles,           \* files under public/videos and public/audio
    audioObjects,         \* objects of storage bucket narration-audio
    videos,               \* status of the row of table videos, per id
    started               \* number of background tasks started, per id

vars == << body, pc, response, videoId, transformedManifest, durationInFrames,
           totalDurationInSeconds, i, audioFiles, supabaseAudioPaths, videoUrl,
           composition, lastUpdateAge, sinceIssue, inflight, job, artifact,
           disk, bucket, videosBucket, faults, called, sent, synthRes,
           cleanupRuns, cleanupFault, failCause, uploadAttempted, completeWrite,
           catchWrite, tasks, localFiles, audioObjects, videos, started >>

\* The single-request view, but for the count of failures.
oneJobFrame == << body, pc, response, videoId, transformedManifest,
                  durationInFrames, totalDurationInSeconds, i, audioFiles,
                  supabaseAudioPaths, videoUrl, composition, lastUpdateAge,
                  sinceIssue, inflight, job, artifact, disk, bucket,
                  videosBucket, called, sent, synthRes, cleanupRuns,
                  cleanupFault, failCause, uploadAttempted, completeWrite,
                  catchWrite >>
jobsVars == << tasks, localFiles, audioObjects, videos, started >>

reqVars == << body, response, videoId >>
planVars == << durationInFrames, totalDurationInSeconds >>
trackVars == << audioFiles, supabaseAudioPaths >>
renderVars == << composition, lastUpdateAge, sinceIssue, inflight >>
storeVars == << job, artifact, bucket, videosBucket >>
synthHist == << sent, synthRes >>
cleanHist == << cleanupRuns, cleanupFault >>
writeHist == << completeWrite, catchWrite >>

\* The composition registered in remotion/Root.tsx.
LoanBriefing == [id |-> "LoanBriefing", durationInFrames |-> RootDurationInFrames,
                 fps |-> RootFps]
NoComposition == [id |-> NULL, durationInFrames |-> 0, fps |-> 0]

NoUrl == << >>
NoJob == [exists |-> FALSE, manifest_id |-> NULL, status |-> NULL, progress |-> 0,
          video_url |-> NoUrl]

\* public/videos/<videoId>.mp4 and public/audio/<videoId>_scene_<n>.mp3
outputLocation == << "mp4", 0 >>
audioPath(n) == << "mp3", n >>
\* the object name, and the public URL the storage gives it
audioFileName(n) == n
AudioPublicUrl(n) == << "pub0", "pub1", "pub2", "pub3" >>[n + 1]
LocalVideoUrl == << "publicHost", "videos", "v1" >>
StoreVideoUrl == << "store", "videos", "v1" >>

Range(s) == { s[k] : k \in DOMAIN s }

\* .update(fields).eq('id', videoId): changes the row if there is one.
update(row, fields) ==
    IF row.exists
    THEN [k \in DOMAIN row |-> IF k \in DOMAIN fields THEN fields[k] ELSE row[k]]
    ELSE row

\* .upsert([row]): creates the row, or overwrites the given columns.
upsert(row, fields) ==
    [k \in DOMAIN row |->
        IF k = "exists" THEN TRUE
        ELSE IF k \in DOMAIN fields THEN fields[k] ELSE row[k]]

\* The outcomes the environment may still choose for one call: at most
\* MaxFaults calls of a run fail.
Outcomes(S) == IF faults < MaxFaults THEN S ELSE {"ok"}
Charge(o) == IF o = "ok" THEN faults ELSE faults + 1

Jobs == 1..MaxJobs

\* The values crypto.randomUUID() returns, in the order it returns them
\* (each call gives a value not given before).
UUIDs == << "v1", "v2", "v3", "v4" >>
Ids == {UUIDs[k] : k \in 1..MaxJobs}

NoTask == [pc |-> "idle", videoId |-> NULL, manifest_id |-> NULL,
           totalScenes |-> 0, i |-> 0, audioFiles |-> << >>,
           supabaseAudioPaths |-> << >>, wrote |-> "none"]

\* No request has been received.
JobsIdle ==
    /\ tasks = [j \in Jobs |-> NoTask]
    /\ localFiles = {}
    /\ audioObjects = {}
    /\ videos = [id \in Ids |-> "none"]
    /\ started = [id \in Ids |-> 0]

Init ==
    /\ JobsIdle
    /\ body \in [manifest : RawManifests, manifest_id : ManifestIds]
    /\ pc = "idle"
    /\ response = "none"
    /\ videoId = NULL
    /\ transformedManifest = NullResult
    /\ durationInFrames = 0
    /\ totalDurationInSeconds = 0
    /\ i = 0
    /\ audioFiles = << >>
    /\ supabaseAudioPaths = << >>
    /\ videoUrl = NoUrl
    /\ composition = NoComposition
    /\ lastUpdateAge = 0
    /\ sinceIssue = ThrottleMs
    /\ inflight = << >>
    /\ job = NoJob
    /\ artifact = NoUrl
    /\ disk = {}
    /\ bucket = {}
    /\ videosBucket = {}
    /\ faults = 0
    /\ called = FALSE
    /\ sent = {}
    /\ synthRes = << >>
    /\ cleanupRuns = 0
    /\ cleanupFault = FALSE
    /\ failCause = "none"
    /\ uploadAttempted = FALSE
    /\ completeWrite = "none"
    /\ catchWrite = "none"

\* ---------------------------------------------- POST /generate-video
\* Variant: the scene count is not validated.
RejectsNullOnly(t) == t.kind = "null"

\* Line 97: the validation of the transformed manifest.
Rejects(t) == t.kind = "null" \/ Len(t.scenes) = 0

\* Lines 89-107: validation, id generation, the early response; the
\* background task then runs up to its first await (listBuckets).
Submit ==
    /\ pc = "idle"
    /\ LET t == transformManifest(body.manifest) IN
       IF ~body.manifest.present
       THEN /\ response' = "400 Missing manifest"
            /\ pc' = "rejected"
            /\ UNCHANGED << videoId, transformedManifest, synthRes >>
       ELSE IF t.kind = "throw"
       THEN /\ pc' = "threw"
            /\ UNCHANGED << response, videoId, transformedManifest, synthRes >>
       ELSE IF Rejects(t)
       THEN /\ response' = "400 Invalid or empty manifest"
            /\ pc' = "rejected"
            /\ UNCHANGED << videoId, transformedManifest, synthRes >>
       ELSE /\ videoId' = "v1"
            /\ response' = "processing"
            /\ transformedManifest' = t
            /\ synthRes' = [k \in DOMAIN t.scenes |-> "none"]
            /\ pc' = "bucket"
    /\ UNCHANGED jobsVars
    /\ UNCHANGED << body, planVars, i, trackVars, videoUrl, renderVars, storeVars,
                    disk, faults, called, sent, cleanHist, failCause,
                    uploadAttempted, writeHist >>

\* ------------------------------------------------ the background task
Throw(cause) == pc' = "catch" /\ failCause' = cause

fps == IF transformedManifest.meta.fps = 0 THEN DefaultFps
       ELSE transformedManifest.meta.fps

\* Lines 117-132: best-effort bucket check (its own try/catch), then the
\* render plan.
EnsureBucket ==
    /\ pc = "bucket"
    /\ \E o \in Outcomes({"ok", "throw"}) : faults' = Charge(o)
    /\ called' = TRUE
    /\ totalDurationInSeconds' = SumDurations(transformedManifest.scenes)
    /\ durationInFrames' =
          Max(1, FloorFrames(SumDurations(transformedManifest.scenes), fps))
    /\ pc' = "upsert"
    /\ UNCHANGED jobsVars
    /\ UNCHANGED << reqVars, transformedManifest, i, trackVars, videoUrl,
                    renderVars, storeVars, disk, synthHist, cleanHist, failCause,
                    uploadAttempted, writeHist >>

\* Lines 134-145: the initial row, written only when a manifest_id came.
InitialUpsert ==
    /\ pc = "upsert"
    /\ IF Truthy(body.manifest_id)
       THEN \E o \in Outcomes({"ok", "error", "throw"}) :
              /\ faults' = Charge(o)
              /\ job' = IF o = "ok"
                        THEN upsert(job, [manifest_id |-> body.manifest_id,
                                          status |-> "processing", progress |-> 5])
                        ELSE job
              /\ IF o = "throw" THEN Throw("upsert")
                 ELSE pc' = "bundle" /\ UNCHANGED failCause
       ELSE /\ pc' = "bundle"
            /\ UNCHANGED << job, faults, failCause >>
    /\ UNCHANGED jobsVars
    /\ UNCHANGED << reqVars, transformedManifest, planVars, i, trackVars, videoUrl,
                    renderVars, artifact, bucket, videosBucket, disk, called,
                    synthHist, cleanHist, uploadAttempted, writeHist >>

\* Lines 147-155: bundle(), then the loop is entered.
Bundle ==
    /\ pc = "bundle"
    /\ \E o \in Outcomes({"ok", "throw"}) :
         /\ faults' = Charge(o)
         /\ IF o = "throw" THEN Throw("bundle")
            ELSE pc' = "progress" /\ UNCHANGED failCause
    /\ i' = 0
    /\ UNCHANGED jobsVars
    /\ UNCHANGED << reqVars, transformedManifest, planVars, trackVars, videoUrl,
                    renderVars, storeVars, disk, called, synthHist, cleanHist,
                    uploadAttempted, writeHist >>

\* ------------------------------------------------- narration synthesis
totalScenes == Len(transformedManifest.scenes)

\* Variant: the guard does not look at audioUrl.
NeedsAudioIgnoringUrl(scene) == Truthy(scene.narration.text)

\* Line 166: the scene has text and no audioUrl yet.
NeedsAudio(scene) ==
    Truthy(scene.narration.text) /\ ~Truthy(scene.narration.audioUrl)

audioProgress(n) == Round(n * 25, totalScenes) + 5

\* Variant: the loop is left after its first pass.
NextSceneSkipping ==
    /\ i' = i + 1
    /\ pc' = "select"

\* The loop's i++ and condition, then either the next pass or line 210.
NextScene ==
    /\ i' = i + 1
    /\ pc' = IF i + 1 < totalScenes THEN "progress" ELSE "select"

\* Lines 155-166: the progress update of scene i (outside the inner try),
\* then the synthesis guard.
AudioProgress ==
    /\ pc = "progress"
    /\ i < totalScenes
    /\ \E o \in Outcomes({"ok", "error", "throw"}) :
         /\ faults' = Charge(o)
         /\ job' = IF o = "ok" THEN update(job, [progress |-> audioProgress(i)])
                   ELSE job
         /\ IF o = "throw" THEN Throw("audioProgress") /\ UNCHANGED i
            ELSE IF NeedsAudio(transformedManifest.scenes[i + 1])
            THEN pc' = "speak" /\ UNCHANGED << i, failCause >>
            ELSE NextScene /\ UNCHANGED failCause
    /\ UNCHANGED jobsVars
    /\ UNCHANGED << reqVars, transformedManifest, planVars, trackVars, videoUrl,
                    renderVars, artifact, bucket, videosBucket, disk, called,
                    synthHist, cleanHist, uploadAttempted, writeHist >>

\* Variant: the request is not awaited, the loop goes on to the next scene
\* while it is outstanding.
SpeakNotAwaited ==
    /\ pc = "speak"
    /\ sent' = sent \cup {i}
    /\ \E o \in Outcomes({"ok", "nostream", "throw"}) :
         /\ faults' = Charge(o)
         /\ IF o = "ok"
            THEN NextScene /\ UNCHANGED synthRes
            ELSE /\ synthRes' = [synthRes EXCEPT ![i + 1] =
                                    IF o = "throw" THEN "fail" ELSE "nostream"]
                 /\ NextScene
    /\ UNCHANGED jobsVars
    /\ UNCHANGED << reqVars, transformedManifest, planVars, trackVars, videoUrl,
                    renderVars, storeVars, disk, called, cleanHist, failCause,
                    uploadAttempted, writeHist >>

\* Lines 167-178: deepgram.speak.request and getStream; an error is caught
\* by the scene's own try/catch, a null stream skips the scene silently.
Speak ==
    /\ pc = "speak"
    /\ sent' = sent \cup {i}
    /\ \E o \in Outcomes({"ok", "nostream", "throw"}) :
         /\ faults' = Charge(o)
         /\ IF o = "ok"
            THEN pc' = "write" /\ UNCHANGED << i, synthRes >>
            ELSE /\ synthRes' = [synthRes EXCEPT ![i + 1] =
                                    IF o = "throw" THEN "fail" ELSE "nostream"]
                 /\ NextScene
    /\ UNCHANGED jobsVars
    /\ UNCHANGED << reqVars, transformedManifest, planVars, trackVars, videoUrl,
                    renderVars, storeVars, disk, called, cleanHist, failCause,
                    uploadAttempted, writeHist >>

\* Lines 179-183: the stream is piped to public/audio/<id>_scene_<i>.mp3.
\* When the pipe fails the file may or may not have been created.
WriteAudioFile ==
    /\ pc = "write"
    /\ \E o \in Outcomes({"ok", "throw"}), created \in BOOLEAN :
         /\ o = "ok" => created
         /\ faults' = Charge(o)
         /\ disk' = IF created THEN disk \cup {audioPath(i)} ELSE disk
         /\ IF o = "ok"
            THEN pc' = "uploadAudio" /\ UNCHANGED << i, synthRes >>
            ELSE /\ synthRes' = [synthRes EXCEPT ![i + 1] = "fail"]
                 /\ NextScene
    /\ UNCHANGED jobsVars
    /\ UNCHANGED << reqVars, transformedManifest, planVars, trackVars, videoUrl,
                    renderVars, storeVars, called, sent, cleanHist, failCause,
                    uploadAttempted, writeHist >>

\* Variant: no try/catch around the scene, an upload failure reaches the
\* outer catch.
UploadAudioAborting ==
    /\ pc = "uploadAudio"
    /\ \E o \in Outcomes({"ok", "error", "throw"}) :
         /\ faults' = Charge(o)
         /\ IF o = "ok"
            THEN /\ bucket' = bucket \cup {audioFileName(i)}
                 /\ transformedManifest' =
                       [transformedManifest EXCEPT
                           !.scenes[i + 1].narration.audioUrl = AudioPublicUrl(i)]
                 /\ audioFiles' = Append(audioFiles, audioPath(i))
                 /\ supabaseAudioPaths' =
                       Append(supabaseAudioPaths, audioFileName(i))
                 /\ synthRes' = [synthRes EXCEPT ![i + 1] = "ok"]
                 /\ NextScene
                 /\ UNCHANGED failCause
            ELSE /\ synthRes' = [synthRes EXCEPT ![i + 1] = "fail"]
                 /\ Throw("uploadAudio")
                 /\ UNCHANGED << i, bucket, transformedManifest, trackVars >>
    /\ UNCHANGED jobsVars
    /\ UNCHANGED << reqVars, planVars, videoUrl, renderVars, job, artifact,
                    videosBucket, disk, called, sent, cleanHist,
                    uploadAttempted, writeHist >>

\* Lines 184-206: upload to the bucket; only after it succeeded are the URL
\* recorded on the scene and the two names pushed on the tracking lists.
UploadAudio ==
    /\ pc = "uploadAudio"
    /\ \E o \in Outcomes({"ok", "error", "throw"}) :
         /\ faults' = Charge(o)
         /\ IF o = "ok"
            THEN /\ bucket' = bucket \cup {audioFileName(i)}
                 /\ transformedManifest' =
                       [transformedManifest EXCEPT
                           !.scenes[i + 1].narration.audioUrl = AudioPublicUrl(i)]
                 /\ audioFiles' = Append(audioFiles, audioPath(i))
                 /\ supabaseAudioPaths' =
                       Append(supabaseAudioPaths, audioFileName(i))
                 /\ synthRes' = [synthRes EXCEPT ![i + 1] = "ok"]
            ELSE /\ synthRes' = [synthRes EXCEPT ![i + 1] = "fail"]
                 /\ UNCHANGED << bucket, transformedManifest, trackVars >>
    /\ NextScene
    /\ UNCHANGED jobsVars
    /\ UNCHANGED << reqVars, planVars, videoUrl, renderVars, job, artifact,
                    videosBucket, disk, called, sent, cleanHist, failCause,
                    uploadAttempted, writeHist >>

\* ------------------------------------------------------------ rendering
\* Lines 210-226: selectComposition returns the composition registered in
\* Root.tsx; its durationInFrames is overridden, the throttle clock is
\* started (lastUpdate = Date.now()) and renderMedia is called.
SelectComposition ==
    /\ pc = "select"
    /\ \E o \in Outcomes({"ok", "throw"}) :
         /\ faults' = Charge(o)
         /\ IF o = "ok"
            THEN /\ composition' = [LoanBriefing EXCEPT
                                     !.durationInFrames = durationInFrames]
                 /\ lastUpdateAge' = 0
                 /\ pc' = "render"
                 /\ UNCHANGED failCause
            ELSE /\ Throw("select")
                 /\ UNCHANGED << composition, lastUpdateAge >>
    /\ UNCHANGED jobsVars
    /\ UNCHANGED << reqVars, transformedManifest, planVars, i, trackVars, videoUrl,
                    sinceIssue, inflight, storeVars, disk, called, synthHist,
                    cleanHist, uploadAttempted, writeHist >>

\* The fractions (in percent) the Render Engine may report.
Fractions == {33, 100}

\* Variant: the engine's fraction is forwarded as a percentage.
totalProgressUnscaled(f) == Round(f * 100, 100)

\* Line 239: the fraction is mapped on the range of the rendering stage.
totalProgress(f) == 30 + Round(f * 60, 100)

\* Line 238: the throttle test of the progress callback.
Throttled(age) == ~(age > ThrottleMs)

\* The outstanding updates are answered in any order, so the order in which
\* they are kept carries no meaning: they are kept ascending.
Outstanding(s, v) ==
    LET k == Cardinality({n \in DOMAIN s : s[n] <= v})
    IN SubSeq(s, 1, k) \o << v >> \o SubSeq(s, k + 1, Len(s))

\* Lines 236-246: the engine invokes onProgress and does not await it; the
\* callback issues its update when the throttle lets it, and does nothing
\* otherwise.
OnProgress ==
    /\ pc = "render"
    /\ Len(inflight) < MaxInflight
    /\ \E f \in Fractions :
         inflight' = IF Throttled(lastUpdateAge) THEN inflight
                     ELSE Outstanding(inflight, totalProgress(f))
    /\ sinceIssue' = IF Throttled(lastUpdateAge) THEN sinceIssue ELSE 0
    /\ UNCHANGED jobsVars
    /\ UNCHANGED << reqVars, pc, transformedManifest, planVars, i, trackVars,
                    videoUrl, composition, lastUpdateAge, storeVars, disk,
                    faults, called, synthHist, cleanHist, failCause,
                    uploadAttempted, writeHist >>

RemoveAt(s, k) == [n \in 1..(Len(s) - 1) |-> IF n < k THEN s[n] ELSE s[n + 1]]

\* Lines 240-247: one outstanding update is answered by the Job Store (in
\* any order), and its callback resumes with lastUpdate = Date.now().  Once
\* renderMedia has returned no callback reads the clock any more.
ProgressAnswered ==
    /\ \E k \in DOMAIN inflight, o \in Outcomes({"ok", "error"}) :
         /\ faults' = Charge(o)
         /\ job' = IF o = "ok" THEN update(job, [progress |-> inflight[k]])
                   ELSE job
         /\ inflight' = RemoveAt(inflight, k)
    /\ lastUpdateAge' = IF pc = "render" THEN 0 ELSE lastUpdateAge
    /\ UNCHANGED jobsVars
    /\ UNCHANGED << reqVars, pc, transformedManifest, planVars, i, trackVars,
                    videoUrl, composition, sinceIssue, artifact, bucket,
                    videosBucket, disk, called, synthHist, cleanHist, failCause,
                    uploadAttempted, writeHist >>

\* Wall time passes while the engine renders, one throttle interval at a
\* time; beyond two intervals the age no longer matters to line 238, and
\* beyond one interval the time since the last issue no longer matters.
Tick ==
    /\ pc = "render"
    /\ lastUpdateAge < 2 * ThrottleMs \/ sinceIssue < ThrottleMs
    /\ lastUpdateAge' = IF lastUpdateAge < 2 * ThrottleMs
                        THEN lastUpdateAge + ThrottleMs ELSE lastUpdateAge
    /\ sinceIssue' = ThrottleMs
    /\ UNCHANGED jobsVars
    /\ UNCHANGED << reqVars, pc, transformedManifest, planVars, i, trackVars,
                    videoUrl, composition, inflight, storeVars, disk, faults,
                    called, synthHist, cleanHist, failCause, uploadAttempted,
                    writeHist >>

\* Lines 226-252: renderMedia resolves with the file written, or rejects
\* (a partial output file may be left behind).  No callback is invoked
\* afterwards, so the two ages are left at their saturated values.
RenderMedia ==
    /\ pc = "render"
    /\ \E o \in Outcomes({"ok", "throw"}), written \in BOOLEAN :
         /\ o = "ok" => written
         /\ faults' = Charge(o)
         /\ disk' = IF written THEN disk \cup {outputLocation} ELSE disk
         /\ IF o = "ok" THEN pc' = "uploadProgress" /\ UNCHANGED failCause
            ELSE Throw("render")
    /\ lastUpdateAge' = 2 * ThrottleMs
    /\ sinceIssue' = ThrottleMs
    /\ UNCHANGED jobsVars
    /\ UNCHANGED << reqVars, transformedManifest, planVars, i, trackVars, videoUrl,
                    composition, inflight, storeVars, called, synthHist,
                    cleanHist, uploadAttempted, writeHist >>

\* ----------------------------------------------------------- publishing
\* Lines 253-268: progress 95, then the local URL is assumed.
UploadProgress ==
    /\ pc = "uploadProgress"
    /\ \E o \in Outcomes({"ok", "error", "throw"}) :
         /\ faults' = Charge(o)
         /\ job' = IF o = "ok" THEN update(job, [progress |-> 95]) ELSE job
         /\ IF o = "throw"
            THEN Throw("uploadProgress") /\ UNCHANGED videoUrl
            ELSE /\ videoUrl' = LocalVideoUrl
                 /\ pc' = "uploadVideo"
                 /\ UNCHANGED failCause
    /\ UNCHANGED jobsVars
    /\ UNCHANGED << reqVars, transformedManifest, planVars, i, trackVars,
                    renderVars, artifact, bucket, videosBucket, disk, called,
                    synthHist, cleanHist, uploadAttempted, writeHist >>

\* Lines 270-289: the upload in its own try/catch; the public URL replaces
\* the local one only when the upload returned no error.
UploadVideo ==
    /\ pc = "uploadVideo"
    /\ uploadAttempted' = TRUE
    /\ \E o \in Outcomes({"ok", "error", "throw"}) :
         /\ faults' = Charge(o)
         /\ IF o = "ok"
            THEN /\ videosBucket' = videosBucket \cup {"v1.mp4"}
                 /\ videoUrl' = StoreVideoUrl
            ELSE UNCHANGED << videosBucket, videoUrl >>
    /\ pc' = "complete"
    /\ UNCHANGED jobsVars
    /\ UNCHANGED << reqVars, transformedManifest, planVars, i, trackVars,
                    renderVars, job, artifact, bucket, disk, called, synthHist,
                    cleanHist, failCause, writeHist >>

\* Lines 291-305: the completion update.
CompletionUpdate ==
    /\ pc = "complete"
    /\ \E o \in Outcomes({"ok", "error", "throw"}) :
         /\ faults' = Charge(o)
         /\ completeWrite' = o
         /\ job' = IF o = "ok"
                   THEN update(job, [video_url |-> videoUrl,
                                     status |-> "completed", progress |-> 100])
                   ELSE job
         /\ IF o = "throw" THEN Throw("complete")
            ELSE /\ pc' = IF Truthy(body.manifest_id) THEN "sync" ELSE "cleanup"
                 /\ UNCHANGED failCause
    /\ UNCHANGED jobsVars
    /\ UNCHANGED << reqVars, transformedManifest, planVars, i, trackVars, videoUrl,
                    renderVars, artifact, bucket, videosBucket, disk, called,
                    synthHist, cleanHist, uploadAttempted, catchWrite >>

\* Lines 304-323: the row is read back and the artifacts row of the
\* manifest's analysis is updated; all inside the outer try.
ArtifactsSync ==
    /\ pc = "sync"
    /\ \E o \in Outcomes({"ok", "error", "throw"}) :
         /\ faults' = Charge(o)
         /\ artifact' = IF o = "ok" /\ job.exists /\ Truthy(job.manifest_id)
                        THEN videoUrl ELSE artifact
         /\ IF o = "throw" THEN Throw("sync")
            ELSE pc' = "cleanup" /\ UNCHANGED failCause
    /\ UNCHANGED jobsVars
    /\ UNCHANGED << reqVars, transformedManifest, planVars, i, trackVars, videoUrl,
                    renderVars, job, bucket, videosBucket, disk, called,
                    synthHist, cleanHist, uploadAttempted, writeHist >>

\* ------------------------------------------------------ catch / finally
\* Variant: try/catch without finally, an error of the status write ends
\* the task at once.
CatchWithoutFinally ==
    /\ pc = "catch"
    /\ \E o \in Outcomes({"ok", "error", "throw"}) :
         /\ faults' = Charge(o)
         /\ catchWrite' = o
         /\ job' = IF o = "ok" THEN update(job, [status |-> "failed"]) ELSE job
         /\ pc' = IF o = "throw" THEN "done" ELSE "cleanup"
    /\ UNCHANGED jobsVars
    /\ UNCHANGED << reqVars, transformedManifest, planVars, i, trackVars, videoUrl,
                    renderVars, artifact, bucket, videosBucket, disk,
                    called, synthHist, cleanHist, failCause, uploadAttempted,
                    completeWrite >>

\* Lines 325-331: status failed is written; an error of that write leaves
\* the task after the finally block has run.
Catch ==
    /\ pc = "catch"
    /\ \E o \in Outcomes({"ok", "error", "throw"}) :
         /\ faults' = Charge(o)
         /\ catchWrite' = o
         /\ job' = IF o = "ok" THEN update(job, [status |-> "failed"]) ELSE job
    /\ pc' = "cleanup"
    /\ UNCHANGED jobsVars
    /\ UNCHANGED << reqVars, transformedManifest, planVars, i, trackVars, videoUrl,
                    renderVars, artifact, bucket, videosBucket, disk,
                    called, synthHist, cleanHist, failCause, uploadAttempted,
                    completeWrite >>

\* Variant: the finally block leaves the rendered video alone.
CleanupTargetsAudioOnly == Range(audioFiles) \cap disk

\* The local files the finally block tries to delete: the video if it
\* exists, and the tracked audio files that exist.
CleanupTargets == ({outputLocation} \cup Range(audioFiles)) \cap disk

\* Variant: one try/catch around the whole finally block, the first failed
\* deletion ends the cleanup.
CleanupLocalAborting ==
    /\ pc = "cleanup"
    /\ cleanupRuns' = cleanupRuns + 1
    /\ \E failed \in SUBSET CleanupTargets :
         /\ Cardinality(failed) <= MaxFaults - faults
         /\ faults' = faults + Cardinality(failed)
         /\ disk' = IF failed = {} THEN disk \ CleanupTargets ELSE disk
         /\ cleanupFault' = (failed # {})
         /\ pc' = IF failed = {} /\ Len(supabaseAudioPaths) > 0
                  THEN "cleanupRemote" ELSE "done"
    /\ UNCHANGED jobsVars
    /\ UNCHANGED << reqVars, transformedManifest, planVars, i, trackVars, videoUrl,
                    renderVars, storeVars, called, synthHist, failCause,
                    uploadAttempted, writeHist >>

\* Lines 331-356: the local deletions, each in its own try/catch.
CleanupLocal ==
    /\ pc = "cleanup"
    /\ cleanupRuns' = cleanupRuns + 1
    /\ \E failed \in SUBSET CleanupTargets :
         /\ Cardinality(failed) <= MaxFaults - faults
         /\ faults' = faults + Cardinality(failed)
         /\ disk' = disk \ (CleanupTargets \ failed)
         /\ cleanupFault' = (failed # {})
    /\ pc' = IF Len(supabaseAudioPaths) > 0 THEN "cleanupRemote" ELSE "done"
    /\ UNCHANGED jobsVars
    /\ UNCHANGED << reqVars, transformedManifest, planVars, i, trackVars, videoUrl,
                    renderVars, storeVars, called, synthHist, failCause,
                    uploadAttempted, writeHist >>

\* Lines 356-368: the batch removal of the tracked remote audio objects.
CleanupRemote ==
    /\ pc = "cleanupRemote"
    /\ \E o \in Outcomes({"ok", "error", "throw"}) :
         /\ faults' = Charge(o)
         /\ bucket' = IF o = "ok" THEN bucket \ Range(supabaseAudioPaths)
                      ELSE bucket
         /\ cleanupFault' = (cleanupFault \/ o # "ok")
    /\ pc' = "done"
    /\ UNCHANGED jobsVars
    /\ UNCHANGED << reqVars, transformedManifest, planVars, i, trackVars, videoUrl,
                    renderVars, job, artifact, videosBucket, disk, called,
                    synthHist, cleanupRuns, failCause, uploadAttempted,
                    writeHist >>

Next ==
    \/ Submit
    \/ EnsureBucket
    \/ InitialUpsert
    \/ Bundle
    \/ AudioProgress
    \/ Speak
    \/ WriteAudioFile
    \/ UploadAudio
    \/ SelectComposition
    \/ OnProgress
    \/ ProgressAnswered
    \/ Tick
    \/ RenderMedia
    \/ UploadProgress
    \/ UploadVideo
    \/ CompletionUpdate
    \/ ArtifactsSync
    \/ Catch
    \/ CleanupLocal
    \/ CleanupRemote

Spec == Init /\ [][Next]_vars

TypeOK ==
    /\ pc \in {"idle", "rejected", "threw", "bucket", "upsert", "bundle",
               "progress", "speak", "write", "uploadAudio", "select", "render",
               "uploadProgress", "uploadVideo", "complete", "sync", "catch",
               "cleanup", "cleanupRemote", "done"}
    /\ faults \in 0..MaxFaults
    /\ Len(inflight) <= MaxInflight
    /\ lastUpdateAge \in {0, ThrottleMs, 2 * ThrottleMs}
    /\ sinceIssue \in {0, ThrottleMs}
    /\ i \in 0..MaxScenes

\* ------------------------------------------------- concurrent requests
\* The handler and the task again, for several requests at once, reduced
\* to what the tasks share: the names they give to local files and bucket
\* objects, the rows of table videos they write, and their tracking lists.

\* Line 102: path.join(outputDir, `${videoId}.mp4`)
outputLocationOf(id) == << "videos", id >>

\* Variant: the object name does not contain the videoId.
audioFileNameShared(id, n) == << NULL, n >>

\* Line 169: `${videoId}_scene_${i}.mp3`
audioFileNameOf(id, n) == << id, n >>

\* Line 170: path.join(audioDir, audioFileName)
audioPathOf(id, n) == << "audio", audioFileNameOf(id, n) >>

\* .update({status}).eq('id', id) on table videos: changes the row if there
\* is one.
updateStatus(id, status) ==
    IF videos[id] = "none" THEN videos ELSE [videos EXCEPT ![id] = status]

\* Lines 89-112: the j-th request received is accepted (its manifest has
\* MaxScenes scenes to synthesize): a new videoId, the response, and the
\* background task is started with its own two empty lists.
AcceptJob(j) ==
    /\ tasks[j].pc = "idle"
    /\ \A k \in Jobs : k < j => tasks[k].pc # "idle"
    /\ \E m \in ManifestIds :
         LET id == UUIDs[j] IN
         /\ tasks' = [tasks EXCEPT ![j] =
                         [NoTask EXCEPT !.pc = "upsert", !.videoId = id,
                                        !.manifest_id = m,
                                        !.totalScenes = MaxScenes]]
         /\ started' = [started EXCEPT ![id] = @ + 1]
    /\ UNCHANGED << localFiles, audioObjects, videos >>
    /\ UNCHANGED << oneJobFrame, faults >>

\* Lines 134-155: the initial row (when a manifest_id came), the bundle.
RecordJob(j) ==
    /\ tasks[j].pc = "upsert"
    /\ LET id == tasks[j].videoId
           row == Truthy(tasks[j].manifest_id)
       IN /\ videos' = IF row THEN [videos EXCEPT ![id] = "processing"]
                       ELSE videos
          /\ tasks' = [tasks EXCEPT ![j].pc = "synth",
                                    ![j].wrote = IF row THEN "processing" ELSE @]
    /\ UNCHANGED << localFiles, audioObjects, started >>
    /\ UNCHANGED << oneJobFrame, faults >>

\* Lines 156-208: one pass of the narration loop: the file is written, then
\* the upload fails, or it succeeds and the two names are pushed on the
\* task's lists.
SynthesizeJob(j) ==
    /\ tasks[j].pc = "synth"
    /\ LET id == tasks[j].videoId
           n == tasks[j].i
           next == IF n + 1 < tasks[j].totalScenes THEN "synth" ELSE "render"
       IN \E o \in Outcomes({"ok", "uploadFailed"}) :
            /\ faults' = Charge(o)
            /\ localFiles' = localFiles \cup {audioPathOf(id, n)}
            /\ audioObjects' = IF o = "ok"
                               THEN audioObjects \cup {audioFileNameOf(id, n)}
                               ELSE audioObjects
            /\ tasks' = [tasks EXCEPT
                  ![j].i = n + 1,
                  ![j].pc = next,
                  ![j].audioFiles =
                      IF o = "ok" THEN Append(@, audioPathOf(id, n)) ELSE @,
                  ![j].supabaseAudioPaths =
                      IF o = "ok" THEN Append(@, audioFileNameOf(id, n)) ELSE @]
    /\ UNCHANGED << videos, started >>
    /\ UNCHANGED oneJobFrame

\* Lines 210-256: the render writes outputLocation, or fails.
RenderJob(j) ==
    /\ tasks[j].pc = "render"
    /\ \E o \in Outcomes({"ok", "throw"}) :
         /\ faults' = Charge(o)
         /\ localFiles' = IF o = "ok"
                          THEN localFiles \cup {outputLocationOf(tasks[j].videoId)}
                          ELSE localFiles
         /\ tasks' = [tasks EXCEPT ![j].pc = IF o = "ok" THEN "complete"
                                             ELSE "catch"]
    /\ UNCHANGED << audioObjects, videos, started >>
    /\ UNCHANGED oneJobFrame

\* Lines 258-302: the video is read for the upload, then the completion
\* update of the row with id = videoId.
CompleteJob(j) ==
    /\ tasks[j].pc = "complete"
    /\ LET id == tasks[j].videoId
       IN /\ videos' = updateStatus(id, "completed")
          /\ tasks' = [tasks EXCEPT
                ![j].pc = "cleanup",
                ![j].wrote = IF videos[id] = "none" THEN @ ELSE "completed"]
    /\ UNCHANGED << localFiles, audioObjects, started >>
    /\ UNCHANGED << oneJobFrame, faults >>

\* Lines 325-330: the catch block marks the row with id = videoId failed.
FailJob(j) ==
    /\ tasks[j].pc = "catch"
    /\ LET id == tasks[j].videoId
       IN /\ videos' = updateStatus(id, "failed")
          /\ tasks' = [tasks EXCEPT
                ![j].pc = "cleanup",
                ![j].wrote = IF videos[id] = "none" THEN @ ELSE "failed"]
    /\ UNCHANGED << localFiles, audioObjects, started >>
    /\ UNCHANGED << oneJobFrame, faults >>

\* Lines 331-368: the finally block deletes outputLocation, the files of
\* audioFiles and the objects of supabaseAudioPaths.
CleanupJob(j) ==
    /\ tasks[j].pc = "cleanup"
    /\ localFiles' = localFiles \ ({outputLocationOf(tasks[j].videoId)}
                                     \cup Range(tasks[j].audioFiles))
    /\ audioObjects' = audioObjects \ Range(tasks[j].supabaseAudioPaths)
    /\ tasks' = [tasks EXCEPT ![j].pc = "done"]
    /\ UNCHANGED << videos, started >>
    /\ UNCHANGED << oneJobFrame, faults >>

\* The requests are those of tasks; the single-request view stays idle.
InitJobs == Init /\ body = [manifest |-> NoManifest, manifest_id |-> NULL]

NextJobs ==
    \E j \in Jobs :
       \/ AcceptJob(j)
       \/ RecordJob(j)
       \/ SynthesizeJob(j)
       \/ RenderJob(j)
       \/ CompleteJob(j)
       \/ FailJob(j)
       \/ CleanupJob(j)

SpecJobs == InitJobs /\ [][NextJobs]_vars

\* ------------------------------------------------------------ properties
\* The manifest as the handler normalized it, before the task changes it.
Normalized == transformManifest(body.manifest)

Accepted == pc \notin {"idle", "rejected", "threw"}

\* Main (src/unnamed/part_001, lines 24-26): the scene gets an Audio track.
HasAudioTrack(scene) == Truthy(scene.narration.audioUrl)

\* C1: once the orchestration has ended, no temporary local file (rendered
\* video, per-scene audio) and no temporary remote audio object of the job
\* remains, whatever synthesis or upload failed.  Stated for the runs in
\* which every deletion the cleanup block attempted succeeded.
C1_NoTemporaryResourceRemains ==
    (pc = "done" /\ ~cleanupFault) => (disk = {} /\ bucket = {})

\* C2: for every accepted job the cleanup block runs exactly once, on every
\* exit path of the background task, and before the task ends.
C2_CleanupExactlyOnce ==
    /\ cleanupRuns \in {0, 1}
    /\ (cleanupRuns = 1) <=> (pc \in {"cleanupRemote", "done"})
    /\ ~Accepted => cleanupRuns = 0

\* C2 witness: the task ended after the status write of the catch block
\* itself threw, and cleanup ran once.
C2_Witness == pc = "done" /\ catchWrite = "throw" /\ cleanupRuns = 1

\* C3: the progress values written to the job's record never decrease.
C3_ProgressNonDecreasing ==
    [][(job.exists /\ job'.exists) => job'.progress >= job.progress]_vars

\* The steps whose error the outer catch receives.
FatalCauses == {"upsert", "bundle", "audioProgress", "select", "render",
                "uploadProgress", "complete", "sync"}

\* C4: a scene whose synthesis or upload fails does not abort the pipeline:
\* the failure never reaches the outer catch, the failed scene stays
\* without audio, every scene whose synthesis succeeded has its uploaded
\* audioUrl, and when the loop is left every scene that needed audio has
\* been sent to the synthesizer.
C4_SceneFailureNonFatal ==
    /\ failCause \in FatalCauses \cup {"none"}
    /\ \A k \in DOMAIN synthRes :
          /\ synthRes[k] \in {"fail", "nostream"} =>
                ~HasAudioTrack(transformedManifest.scenes[k])
          /\ synthRes[k] = "ok" =>
                transformedManifest.scenes[k].narration.audioUrl
                   = AudioPublicUrl(k - 1)
    /\ pc \in {"select", "render"} =>
          LET scenes == Normalized.scenes IN
          \A k \in DOMAIN synthRes :
             (Truthy(scenes[k].narration.text)
                /\ ~Truthy(scenes[k].narration.audioUrl))
             => (synthRes[k] # "none" /\ (k - 1) \in sent)

\* C4 witness: rendering is reached with one scene failed and another
\* synthesized.
C4_Witness ==
    /\ pc = "render"
    /\ \E k \in DOMAIN synthRes : synthRes[k] = "fail"
    /\ \E k \in DOMAIN synthRes :
          synthRes[k] = "ok" /\ HasAudioTrack(transformedManifest.scenes[k])

\* C5: a scene whose normalized narration has an audioUrl, or whose text is
\* empty, is never sent to the Speech Synthesizer and keeps its audioUrl.
C5_ExistingAudioNotSynthesized ==
    Accepted =>
      LET scenes == Normalized.scenes IN
      \A k \in DOMAIN scenes :
         (Truthy(scenes[k].narration.audioUrl)
            \/ ~Truthy(scenes[k].narration.text))
         => /\ (k - 1) \notin sent
            /\ transformedManifest.scenes[k].narration.audioUrl
                  = scenes[k].narration.audioUrl

\* C5 witness: the loop is over for a manifest holding a scene with audio
\* and a scene without text.
C5_Witness ==
    /\ pc = "select"
    /\ \E k \in DOMAIN Normalized.scenes :
          Truthy(Normalized.scenes[k].narration.audioUrl)
    /\ \E k \in DOMAIN Normalized.scenes :
          ~Truthy(Normalized.scenes[k].narration.text)

\* C6: whether the video upload failed or not the job reaches completed:
\* once the completion update has been accepted by the Job Store (and no
\* render-progress update is outstanding), the job's record is completed
\* with progress 100 and its videoUrl is the store's public URL when the
\* upload succeeded, the local URL when it failed.
C6_CompletedWithUrl ==
    (completeWrite = "ok" /\ pc \in {"sync", "cleanup"} /\ failCause = "none"
       /\ inflight = << >>)
    => /\ job.exists
       /\ job.status = "completed"
       /\ job.progress = 100
       /\ job.video_url = IF videosBucket = {} THEN LocalVideoUrl
                          ELSE StoreVideoUrl

\* C7: a submission whose manifest is missing or normalizes to zero scenes
\* is rejected synchronously: no job id, no record, no collaborator call,
\* no background task.
C7_EmptyManifestRejected ==
    (pc # "idle"
       /\ (~body.manifest.present
             \/ LET t == Normalized IN t.kind = "ok" /\ Len(t.scenes) = 0))
    => /\ pc = "rejected"
       /\ response \in {"400 Missing manifest", "400 Invalid or empty manifest"}
       /\ videoId = NULL
       /\ job = NoJob
       /\ ~called

\* C7 witness: a manifest that is present with zero scenes was rejected.
C7_Witness ==
    pc = "rejected" /\ body.manifest.present /\ Len(Normalized.scenes) = 0

\* The sum of the durations, scene by scene from the last.
DurationUpTo(scenes) ==
    LET f[k \in 0..Len(scenes)] ==
          IF k = 0 THEN 0 ELSE f[k - 1] + scenes[k].duration
    IN f[Len(scenes)]

\* C8: the frame count set on the composition before rendering is
\* max(1, floor(sum of durations * F)): with the product p in tenths of a
\* frame, the count n is 1 when p < 10, else 10 n <= p < 10 (n + 1).
C8_FrameCount ==
    pc = "render" =>
      LET F == IF Normalized.meta.fps = 0 THEN DefaultFps
               ELSE Normalized.meta.fps
          p == DurationUpTo(Normalized.scenes) * F
          n == composition.durationInFrames
      IN IF p < 10 THEN n = 1
         ELSE 10 * n <= p /\ p < 10 * (n + 1)

\* C8 witness: scenes of 5 s and 7 s at 30 fps are rendered with 360 frames.
C8_Witness ==
    /\ pc = "render"
    /\ Len(Normalized.scenes) = 2
    /\ Normalized.scenes[1].duration = 50
    /\ Normalized.scenes[2].duration = 70
    /\ fps = 30
    /\ composition.durationInFrames = 360

\* C9: after a Render Engine failure (bundle, composition selection or
\* render) whose status write was accepted, the job's record says failed,
\* holds no videoUrl, and no video upload was attempted.
C9_RenderFailureFatal ==
    (failCause \in {"bundle", "select", "render"} /\ catchWrite = "ok")
    => /\ job.exists
       /\ job.status = "failed"
       /\ job.video_url = NoUrl
       /\ ~uploadAttempted

\* C10: terminal statuses are absorbing: failed is entered only from
\* processing, and a completed job stays completed.
C10_TerminalAbsorbing ==
    [][/\ job.status = "completed" => job'.status = "completed"
       /\ (job'.status = "failed" /\ job.status # "failed")
             => job.status = "processing"]_vars

\* C11: for every accepted submission, with or without a manifest_id, by
\* the time bundling starts a record with status processing exists in the
\* Job Store.  Stated for the runs in which no collaborator call failed.
C11_InitialRecordWritten ==
    (Accepted /\ pc \notin {"bucket", "upsert"} /\ faults = 0)
    => (job.exists /\ job.status \in {"processing", "completed", "failed"})

\* Lines 109, 325-330, 369: the promise of the background task is not
\* awaited and has no rejection handler; it rejects when the status write
\* of the catch block itself rejects (after the finally block has run).
UnhandledRejection == pc = "done" /\ catchWrite = "throw"

\* C12: an accepted submission has been answered {videoId, processing}
\* before any step of the background task calls a collaborator, and no
\* error raised inside the background task leaves the task.
C12_RespondsFirstAndContainsErrors ==
    /\ Accepted => (response = "processing" /\ videoId # NULL)
    /\ called => response = "processing"
    /\ job.exists => response = "processing"
    /\ ~UnhandledRejection

\* C13: render-progress writes are issued at least ThrottleMs apart,
\* whatever the cadence of the callbacks: a write is issued only when no
\* write was issued within the last ThrottleMs.
C13_RenderWritesThrottled ==
    [][Len(inflight') > Len(inflight) => sinceIssue >= ThrottleMs]_vars

\* The steps that only write a progress value.
ProgressWrites == {"audioProgress", "uploadProgress"}

\* C14: progress updates are best-effort: a progress write that fails
\* (during synthesis, rendering or at the start of the upload) never makes
\* the job take the failure path.
C14_ProgressWriteBestEffort == failCause \notin ProgressWrites

\* The number of entries of a tracking list equal to v.
Occurrences(list, v) == Cardinality({k \in DOMAIN list : list[k] = v})

\* C15: once a scene has been processed, every local audio file created
\* for it and every remote audio object uploaded for it is on the tracking
\* lists, whether or not its later steps succeeded; a scene synthesized
\* with full success has exactly one entry on each list and its audioUrl.
C15_CreatedResourcesTracked ==
    /\ \A n \in 0..(MaxScenes - 1) :
          (audioPath(n) \in disk /\ ~(pc = "uploadAudio" /\ i = n))
          => audioPath(n) \in Range(audioFiles)
    /\ \A name \in bucket : name \in Range(supabaseAudioPaths)
    /\ \A k \in DOMAIN synthRes :
          synthRes[k] = "ok" =>
             /\ Occurrences(audioFiles, audioPath(k - 1)) = 1
             /\ Occurrences(supabaseAudioPaths, audioFileName(k - 1)) = 1
             /\ HasAudioTrack(transformedManifest.scenes[k])

\* The steps that end before renderMedia has returned successfully.
BeforeRenderReturned == {"upsert", "bundle", "audioProgress", "select", "render"}

\* C16: the stages of a job follow one another: no scene is synthesized
\* before bundling has completed, the render is invoked only when the loop
\* has processed every scene, the video upload starts only after the render
\* has returned successfully, the completion update is written only after
\* the upload attempt, and cleanup starts only after a terminal status
\* write (completion or failure) has been issued.
C16_StagesInOrder ==
    /\ (sent # {} \/ i > 0) =>
          /\ pc \notin {"idle", "rejected", "threw", "bucket", "upsert", "bundle"}
          /\ failCause \notin {"upsert", "bundle"}
    /\ composition # NoComposition =>
          /\ i = totalScenes
          /\ pc \notin {"progress", "speak", "write", "uploadAudio", "select"}
          /\ \A k \in DOMAIN synthRes :
                NeedsAudio(transformedManifest.scenes[k])
                => synthRes[k] \in {"fail", "nostream"}
    /\ uploadAttempted =>
          /\ composition # NoComposition
          /\ failCause \notin BeforeRenderReturned
          /\ pc \notin {"render", "uploadProgress", "uploadVideo"}
    /\ completeWrite # "none" => uploadAttempted
    /\ cleanupRuns > 0 => (completeWrite \in {"ok", "error"} \/ catchWrite # "none")
    /\ pc = "cleanup" => (completeWrite \in {"ok", "error"} \/ catchWrite # "none")

\* C16 witness: a job with a synthesized scene went through every stage and
\* ended after cleanup.
C16_Witness ==
    /\ pc = "done"
    /\ \E k \in DOMAIN synthRes : synthRes[k] = "ok"
    /\ uploadAttempted
    /\ completeWrite = "ok"
    /\ cleanupRuns = 1

\* The scenes whose synthesis was requested and has not yet succeeded or
\* failed.
OutstandingScenes == {k \in sent : synthRes[k + 1] = "none"}

\* C17: synthesis is sequential and in manifest order: at most one scene
\* has a synthesizer request or an audio upload outstanding, it is the
\* scene the loop is at, every scene sent before it has succeeded or
\* failed, no scene after it has been touched, and the tracking lists
\* grow in manifest order.
C17_SynthesisSequential ==
    /\ Cardinality(OutstandingScenes) <= 1
    /\ \A k \in OutstandingScenes : k = i /\ pc \in {"write", "uploadAudio"}
    /\ \A k \in DOMAIN synthRes :
          k - 1 > i => (synthRes[k] = "none" /\ (k - 1) \notin sent)
    /\ \A k \in sent : k <= i
    /\ pc \in {"progress", "speak"} => i \notin sent
    /\ \A m, n \in DOMAIN supabaseAudioPaths :
          m < n => supabaseAudioPaths[m] < supabaseAudioPaths[n]

\* C17 witness: the upload of the second scene is outstanding after the
\* first scene has been synthesized and uploaded.
C17_Witness ==
    /\ pc = "uploadAudio"
    /\ i = 1
    /\ sent = {0, 1}
    /\ synthRes[1] = "ok"
    /\ supabaseAudioPaths = << audioFileName(0) >>

\* C18: the cleanup responsibilities are independently best-effort.  In the
\* step of the local deletions every file to delete is gone except those
\* whose own deletion failed (one remaining file per failure), the batch
\* removal of the remote objects follows whenever objects were tracked,
\* and neither cleanup step changes the job's record.
C18_CleanupIndependent ==
    [][/\ cleanupRuns' > cleanupRuns =>
            /\ Cardinality(CleanupTargets \cap disk') = faults' - faults
            /\ disk \ CleanupTargets \subseteq disk'
            /\ pc' = IF Len(supabaseAudioPaths) > 0 THEN "cleanupRemote"
                     ELSE "done"
            /\ job' = job
       /\ (pc = "cleanupRemote" /\ pc' = "done") =>
            /\ job' = job
            /\ disk' = disk
            /\ bucket' \in {bucket, bucket \ Range(supabaseAudioPaths)}
      ]_vars

\* C18 witness: the task ended with the local video still on disk (its
\* deletion failed), the tracked audio file deleted, the remote objects
\* removed and the job completed.
C18_Witness ==
    /\ pc = "done"
    /\ outputLocation \in disk
    /\ Len(audioFiles) > 0
    /\ Range(audioFiles) \cap disk = {}
    /\ bucket = {}
    /\ job.status = "completed"

\* v is x = num / den rounded to the nearest integer, halves upwards.
IsRounded(v, num, den) ==
    /\ 2 * den * v - 2 * num <= den
    /\ 2 * den * v - 2 * num > -den

\* C19: every progress value written lies in the range of the stage that
\* writes it: the initial record in 0..5; the synthesis loop in 5..30 with
\* the value 5 + round(25 i / N) for scene i of N; the render callback in
\* 30..90 with the value 30 + round(60 f) for an engine fraction f; the
\* start of the upload in 90..95; the completion update in 95..100.
C19_ProgressInStageRange ==
    [][/\ \A k \in DOMAIN inflight' :
             /\ inflight'[k] \in 30..90
             /\ \E f \in Fractions : IsRounded(inflight'[k] - 30, 60 * f, 100)
       /\ job'.progress # job.progress =>
             IF inflight' # inflight
             THEN /\ job'.progress \in 30..90
                  /\ job'.progress \in Range(inflight)
             ELSE /\ pc \in {"upsert", "progress", "uploadProgress", "complete"}
                  /\ pc = "upsert" => job'.progress \in 0..5
                  /\ pc = "progress" =>
                        /\ job'.progress \in 5..30
                        /\ IsRounded(job'.progress - 5, 25 * i, totalScenes)
                  /\ pc = "uploadProgress" => job'.progress \in 90..95
                  /\ pc = "complete" => job'.progress \in 95..100
      ]_vars

\* C19 witness: the second of two scenes is started with progress 18
\* (12.5 rounded upwards, plus 5) recorded.
C19_Witness ==
    /\ pc = "speak"
    /\ i = 1
    /\ totalScenes = 2
    /\ job.exists
    /\ job.progress = 18

\* C20: concurrent jobs are isolated.  Every accepted request has its own
\* videoId and exactly one background task; the entries of its tracking
\* lists are names built from its own videoId and are on no other task's
\* list; until its own cleanup its tracked files and objects, and its
\* rendered video, are still there (no other task deleted them); and the
\* row of its videoId holds what the task itself wrote last.
C20_JobsIsolated ==
    /\ \A j \in Jobs :
          LET t == tasks[j] IN
          t.pc # "idle" =>
             /\ started[t.videoId] = 1
             /\ videos[t.videoId] = t.wrote
             /\ \A k \in DOMAIN t.audioFiles :
                   \E n \in 0..(t.totalScenes - 1) :
                      /\ t.audioFiles[k] = << "audio", << t.videoId, n >> >>
                      /\ t.supabaseAudioPaths[k] = << t.videoId, n >>
             /\ t.pc # "done" =>
                   /\ Range(t.audioFiles) \subseteq localFiles
                   /\ Range(t.supabaseAudioPaths) \subseteq audioObjects
             /\ t.pc = "complete" =>
                   outputLocationOf(t.videoId) \in localFiles
             /\ \A k \in Jobs \ {j} :
                   /\ tasks[k].videoId # t.videoId
                   /\ Range(tasks[k].audioFiles) \cap Range(t.audioFiles) = {}
                   /\ Range(tasks[k].supabaseAudioPaths)
                         \cap Range(t.supabaseAudioPaths) = {}
    /\ \A id \in Ids :
          (\A j \in Jobs : tasks[j].videoId # id)
          => (videos[id] = "none" /\ started[id] = 0)

\* C20 witness: one job has ended and cleaned up while another, with
\* tracked audio of its own, is still rendering.
C20_Witness ==
    /\ tasks[1].pc = "done"
    /\ Len(tasks[1].audioFiles) > 0
    /\ tasks[2].pc = "render"
    /\ Len(tasks[2].audioFiles) > 0
    /\ Range(tasks[2].audioFiles) \subseteq localFiles

\* C21: in every manifest the normalizer returned and the handler accepted,
\* every scene's duration is strictly positive.
C21_DurationsPositive ==
    Accepted => \A k \in DOMAIN transformedManifest.scenes :
                   transformedManifest.scenes[k].duration > 0

\* C22: in the normalized manifest of an accepted submission every meta
\* field the raw manifest did not supply has its default (version "1.0",
\* theme "institutional-dark", resolution "1920x1080", fps 30), also when a
\* meta object came with only some fields, and the frame rate used for the
\* frame count is greater than 0.
C22_MetaDefaults ==
    Accepted =>
      LET raw == body.manifest.meta
          meta == transformedManifest.meta
      IN /\ raw.version = NULL => meta.version = DefaultMeta.version
         /\ raw.theme = NULL => meta.theme = DefaultMeta.theme
         /\ raw.resolution = NULL => meta.resolution = DefaultMeta.resolution
         /\ raw.fps = 0 => meta.fps = DefaultMeta.fps
         /\ fps > 0

\* C23: a submission is either accepted with every narration normalized (a
\* bare string s gives text s and no audioUrl, an object keeps its text and
\* audioUrl, an absent narration gives empty text and no audioUrl) or
\* rejected synchronously; the handler never raises an exception, and what
\* is not accepted creates no job.
C23_NormalizedOrRejected ==
    /\ pc # "threw"
    /\ ~Accepted => (videoId = NULL /\ job = NoJob /\ ~called)
    /\ pc = "bucket" =>
          \A k \in DOMAIN transformedManifest.scenes :
             LET raw == body.manifest.scenes[k].narration
                 narration == transformedManifest.scenes[k].narration
             IN /\ raw.kind = "string" =>
                      narration = [text |-> raw.text, audioUrl |-> NULL]
                /\ raw.kind = "object" =>
                      /\ narration.text = IF raw.text = NULL THEN "" ELSE raw.text
                      /\ narration.audioUrl = raw.audioUrl
                /\ raw.kind = "absent" =>
                      narration = [text |-> "", audioUrl |-> NULL]

\* C24: every accepted job ends with a terminal status recorded in the Job
\* Store: when the background task has ended (after cleanup; no later step
\* writes a status) the record exists and says completed with a videoUrl,
\* or failed.
C24_TerminalStatusRecorded ==
    pc = "done" =>
       /\ job.exists
       /\ \/ job.status = "completed" /\ job.video_url # NoUrl
          \/ job.status = "failed"

SceneDurationInFrames(scene) == Max(1, FloorFrames(scene.duration, fps))

\* Main (lines 18-31): the Series lays the sequences out one after another.
SeriesDurationInFrames(scenes) ==
    LET f[k \in 0..Len(scenes)] ==
          IF k = 0 THEN 0 ELSE f[k - 1] + SceneDurationInFrames(scenes[k])
    IN f[Len(scenes)]

\* C26: the frame count set on the composition equals the sum of the
\* lengths of the sequences Main lays out for the scenes.
C26_ScenesFillVideo ==
    pc = "render" =>
       composition.durationInFrames
          = SeriesDurationInFrames(transformedManifest.scenes)

====
